---- MODULE Spec2Model ----
\* Model of the Vietnamese text validator and fixer (src/preprocess/vn_validator.py).
\* A character is its canonical decomposition (NFD): a base and the ordered
\* list of its combining marks.  Combining marks are named by their code point:
\*   grave U+0300, acute U+0301, hook U+0309, tilde U+0303, dot U+0323,
\*   circ U+0302, breve U+0306, horn U+031B, dotabove U+0307.
\* A standalone combining mark is a character whose base is the mark itself.
\* Letters of the universe are lower case, so str.lower() leaves them as they are.
EXTENDS Integers, Sequences, FiniteSets, TLC

COMBINING_TONE_MARKS == {"grave", "acute", "hook", "tilde", "dot"}

COMBINING_MAJOR_VIET == {"circ", "breve", "horn"}

ALLOWED_COMBINING == COMBINING_TONE_MARKS \cup COMBINING_MAJOR_VIET

CombiningMarks == ALLOWED_COMBINING \cup {"dotabove"}

\* canonical combining class of each mark (Unicode data)
CCC(x) == CASE x = "horn" -> 216
            [] x = "dot" -> 220
            [] x = "jamo_a" -> 0
            [] OTHER -> 230

\* U+200B, U+200C, U+200D, U+2060, U+00A0, U+FEFF
INVISIBLE_CODEPOINTS == {"zwsp", "zwnj", "zwj", "wj", "nbsp", "bom"}

\* U+0430, U+0435, U+0440, U+0441, U+0456, U+03B1, U+03BF, U+03B5
HOMOGLYPH_SAFE_MAP ==
    [x \in {"cyr_a", "cyr_ie", "cyr_er", "cyr_es", "cyr_i", "greek_alpha", "greek_omicron", "greek_epsilon"} |->
        CASE x = "cyr_a" -> "a"
          [] x = "cyr_ie" -> "e"
          [] x = "cyr_er" -> "p"
          [] x = "cyr_es" -> "c"
          [] x = "cyr_i" -> "i"
          [] x = "greek_alpha" -> "a"
          [] x = "greek_omicron" -> "o"
          [] x = "greek_epsilon" -> "e"]

VOWELS_BASE == {"a", "e", "i", "o", "u", "y"}

\* the lower-case Latin letters a-z and U+0111 (đ)
LatinLetters == {"a", "b", "c", "d", "e", "f", "g", "h", "i", "j", "k", "l", "m", "n", "o", "p", "q", "r",
                 "s", "t", "u", "v", "w", "x", "y", "z", "dstroke"}

\* letters whose Unicode name contains CYRILLIC or GREEK (cyr_o is U+043E)
NonLatinLetters == DOMAIN HOMOGLYPH_SAFE_MAP \cup {"cyr_o"}

\* U+1100 HANGUL CHOSEONG KIYEOK and U+1161 HANGUL JUNGSEONG A, the NFD of U+AC00
HangulLetters == {"hangul_g", "jamo_a"}

\* a letter without a Unicode name in unicodedata (U+17000, Tangut)
UnnamedLetters == {"tangut"}

\* U+0482 CYRILLIC THOUSANDS SIGN, a named non-letter
NonLetterSigns == {"cyr_thousands"}

\* the script words of unicodedata.name(ch)
UnicodeNameWords(c) ==
    CASE c.b \in {"cyr_a", "cyr_ie", "cyr_er", "cyr_es", "cyr_i", "cyr_o", "cyr_thousands"} -> {"CYRILLIC"}
      [] c.b \in {"greek_alpha", "greek_omicron", "greek_epsilon"} -> {"GREEK"}
      [] OTHER -> {}

\* unicodedata.name(ch) does not raise ValueError
HasUnicodeName(c) == c.b \notin UnnamedLetters

ScriptNames == {"GREEK", "CYRILLIC", "HEBREW", "ARABIC", "DEVANAGARI", "CJK", "HIRAGANA", "KATAKANA"}

\* the characters of the modelled bases that have a composed code point (NFC of their
\* NFD is themselves), from Unicode data
Precomposed == {
    [b |-> "a", m |-> <<"acute">>],
    [b |-> "a", m |-> <<"breve">>],
    [b |-> "a", m |-> <<"breve", "acute">>],
    [b |-> "a", m |-> <<"breve", "grave">>],
    [b |-> "a", m |-> <<"breve", "hook">>],
    [b |-> "a", m |-> <<"breve", "tilde">>],
    [b |-> "a", m |-> <<"circ">>],
    [b |-> "a", m |-> <<"circ", "acute">>],
    [b |-> "a", m |-> <<"circ", "grave">>],
    [b |-> "a", m |-> <<"circ", "hook">>],
    [b |-> "a", m |-> <<"circ", "tilde">>],
    [b |-> "a", m |-> <<"dot">>],
    [b |-> "a", m |-> <<"dot", "breve">>],
    [b |-> "a", m |-> <<"dot", "circ">>],
    [b |-> "a", m |-> <<"dotabove">>],
    [b |-> "a", m |-> <<"grave">>],
    [b |-> "a", m |-> <<"hook">>],
    [b |-> "a", m |-> <<"tilde">>],
    [b |-> "b", m |-> <<"dot">>],
    [b |-> "b", m |-> <<"dotabove">>],
    [b |-> "c", m |-> <<"acute">>],
    [b |-> "c", m |-> <<"circ">>],
    [b |-> "c", m |-> <<"dotabove">>],
    [b |-> "cyr_a", m |-> <<"breve">>],
    [b |-> "cyr_ie", m |-> <<"breve">>],
    [b |-> "cyr_ie", m |-> <<"grave">>],
    [b |-> "d", m |-> <<"dot">>],
    [b |-> "d", m |-> <<"dotabove">>],
    [b |-> "e", m |-> <<"acute">>],
    [b |-> "e", m |-> <<"breve">>],
    [b |-> "e", m |-> <<"circ">>],
    [b |-> "e", m |-> <<"circ", "acute">>],
    [b |-> "e", m |-> <<"circ", "grave">>],
    [b |-> "e", m |-> <<"circ", "hook">>],
    [b |-> "e", m |-> <<"circ", "tilde">>],
    [b |-> "e", m |-> <<"dot">>],
    [b |-> "e", m |-> <<"dot", "circ">>],
    [b |-> "e", m |-> <<"dotabove">>],
    [b |-> "e", m |-> <<"grave">>],
    [b |-> "e", m |-> <<"hook">>],
    [b |-> "e", m |-> <<"tilde">>],
    [b |-> "f", m |-> <<"dotabove">>],
    [b |-> "g", m |-> <<"acute">>],
    [b |-> "g", m |-> <<"breve">>],
    [b |-> "g", m |-> <<"circ">>],
    [b |-> "g", m |-> <<"dotabove">>],
    [b |-> "greek_alpha", m |-> <<"acute">>],
    [b |-> "greek_alpha", m |-> <<"breve">>],
    [b |-> "greek_alpha", m |-> <<"grave">>],
    [b |-> "greek_epsilon", m |-> <<"acute">>],
    [b |-> "greek_epsilon", m |-> <<"grave">>],
    [b |-> "greek_omicron", m |-> <<"acute">>],
    [b |-> "greek_omicron", m |-> <<"grave">>],
    [b |-> "h", m |-> <<"circ">>],
    [b |-> "h", m |-> <<"dot">>],
    [b |-> "h", m |-> <<"dotabove">>],
    [b |-> "hangul_g", m |-> <<"jamo_a">>],
    [b |-> "i", m |-> <<"acute">>],
    [b |-> "i", m |-> <<"breve">>],
    [b |-> "i", m |-> <<"circ">>],
    [b |-> "i", m |-> <<"dot">>],
    [b |-> "i", m |-> <<"grave">>],
    [b |-> "i", m |-> <<"hook">>],
    [b |-> "i", m |-> <<"tilde">>],
    [b |-> "j", m |-> <<"circ">>],
    [b |-> "k", m |-> <<"acute">>],
    [b |-> "k", m |-> <<"dot">>],
    [b |-> "l", m |-> <<"acute">>],
    [b |-> "l", m |-> <<"dot">>],
    [b |-> "m", m |-> <<"acute">>],
    [b |-> "m", m |-> <<"dot">>],
    [b |-> "m", m |-> <<"dotabove">>],
    [b |-> "n", m |-> <<"acute">>],
    [b |-> "n", m |-> <<"dot">>],
    [b |-> "n", m |-> <<"dotabove">>],
    [b |-> "n", m |-> <<"grave">>],
    [b |-> "n", m |-> <<"tilde">>],
    [b |-> "o", m |-> <<"acute">>],
    [b |-> "o", m |-> <<"breve">>],
    [b |-> "o", m |-> <<"circ">>],
    [b |-> "o", m |-> <<"circ", "acute">>],
    [b |-> "o", m |-> <<"circ", "grave">>],
    [b |-> "o", m |-> <<"circ", "hook">>],
    [b |-> "o", m |-> <<"circ", "tilde">>],
    [b |-> "o", m |-> <<"dot">>],
    [b |-> "o", m |-> <<"dot", "circ">>],
    [b |-> "o", m |-> <<"dotabove">>],
    [b |-> "o", m |-> <<"grave">>],
    [b |-> "o", m |-> <<"hook">>],
    [b |-> "o", m |-> <<"horn">>],
    [b |-> "o", m |-> <<"horn", "acute">>],
    [b |-> "o", m |-> <<"horn", "dot">>],
    [b |-> "o", m |-> <<"horn", "grave">>],
    [b |-> "o", m |-> <<"horn", "hook">>],
    [b |-> "o", m |-> <<"horn", "tilde">>],
    [b |-> "o", m |-> <<"tilde">>],
    [b |-> "o", m |-> <<"tilde", "acute">>],
    [b |-> "p", m |-> <<"acute">>],
    [b |-> "p", m |-> <<"dotabove">>],
    [b |-> "r", m |-> <<"acute">>],
    [b |-> "r", m |-> <<"dot">>],
    [b |-> "r", m |-> <<"dotabove">>],
    [b |-> "s", m |-> <<"acute">>],
    [b |-> "s", m |-> <<"acute", "dotabove">>],
    [b |-> "s", m |-> <<"circ">>],
    [b |-> "s", m |-> <<"dot">>],
    [b |-> "s", m |-> <<"dot", "dotabove">>],
    [b |-> "s", m |-> <<"dotabove">>],
    [b |-> "t", m |-> <<"dot">>],
    [b |-> "t", m |-> <<"dotabove">>],
    [b |-> "u", m |-> <<"acute">>],
    [b |-> "u", m |-> <<"breve">>],
    [b |-> "u", m |-> <<"circ">>],
    [b |-> "u", m |-> <<"dot">>],
    [b |-> "u", m |-> <<"grave">>],
    [b |-> "u", m |-> <<"hook">>],
    [b |-> "u", m |-> <<"horn">>],
    [b |-> "u", m |-> <<"horn", "acute">>],
    [b |-> "u", m |-> <<"horn", "dot">>],
    [b |-> "u", m |-> <<"horn", "grave">>],
    [b |-> "u", m |-> <<"horn", "hook">>],
    [b |-> "u", m |-> <<"horn", "tilde">>],
    [b |-> "u", m |-> <<"tilde">>],
    [b |-> "u", m |-> <<"tilde", "acute">>],
    [b |-> "v", m |-> <<"dot">>],
    [b |-> "v", m |-> <<"tilde">>],
    [b |-> "w", m |-> <<"acute">>],
    [b |-> "w", m |-> <<"circ">>],
    [b |-> "w", m |-> <<"dot">>],
    [b |-> "w", m |-> <<"dotabove">>],
    [b |-> "w", m |-> <<"grave">>],
    [b |-> "x", m |-> <<"dotabove">>],
    [b |-> "y", m |-> <<"acute">>],
    [b |-> "y", m |-> <<"circ">>],
    [b |-> "y", m |-> <<"dot">>],
    [b |-> "y", m |-> <<"dotabove">>],
    [b |-> "y", m |-> <<"grave">>],
    [b |-> "y", m |-> <<"hook">>],
    [b |-> "y", m |-> <<"tilde">>],
    [b |-> "z", m |-> <<"acute">>],
    [b |-> "z", m |-> <<"circ">>],
    [b |-> "z", m |-> <<"dot">>],
    [b |-> "z", m |-> <<"dotabove">>]
    }

\* the composed characters above whose code point lies outside U+00C0..U+1EF9:
\* U+1F70, U+1F72, U+1F78, U+1FB0 and U+AC00
ComposedOutsideTokenRange == {
    [b |-> "greek_alpha", m |-> <<"breve">>],
    [b |-> "greek_alpha", m |-> <<"grave">>],
    [b |-> "greek_epsilon", m |-> <<"grave">>],
    [b |-> "greek_omicron", m |-> <<"grave">>],
    [b |-> "hangul_g", m |-> <<"jamo_a">>]
    }

Ch(b, m) == [b |-> b, m |-> m]

Plain(b) == Ch(b, <<>>)

\* str.isalpha()
IsAlpha(c) == c.b \in LatinLetters \cup NonLatinLetters \cup UnnamedLetters \cup HangulLetters

\* membership in the character class [A-Za-zÀ-ỹ\-]: ASCII letters, every
\* composed letter and Cyrillic/Greek letter of the universe, combining marks
\* (U+0300..U+036F) and the hyphen; not space nor the invisible characters
InTokenClass(c) ==
    IF c.m = <<>>
    THEN c.b \in LatinLetters \cup NonLatinLetters \cup NonLetterSigns \cup CombiningMarks \cup HangulLetters \cup {"hyphen"}
    ELSE c \notin ComposedOutsideTokenRange

IsTone(x) == x \in COMBINING_TONE_MARKS

HasTone(c) == \E k \in 1..Len(c.m) : IsTone(c.m[k])

ToneCount(c) == Len(SelectSeq(c.m, IsTone))

RECURSIVE Flatten(_)
Flatten(ss) == IF ss = <<>> THEN <<>> ELSE Head(ss) \o Flatten(Tail(ss))

SetMin(S) == CHOOSE x \in S : \A y \in S : x <= y

SetMax(S) == CHOOSE x \in S : \A y \in S : x >= y

\* canonical reordering: stable sort of the marks by combining class
IsCcc216(x) == CCC(x) = 216
IsCcc220(x) == CCC(x) = 220
IsCcc230(x) == CCC(x) = 230
SortRun(ms) == SelectSeq(ms, IsCcc216) \o SelectSeq(ms, IsCcc220) \o SelectSeq(ms, IsCcc230)

\* stable sort by class of each run of non-starters; a starter (class 0) stays in place
RECURSIVE CanonicalOrder(_)
CanonicalOrder(ms) ==
    LET S == {k \in 1..Len(ms) : CCC(ms[k]) = 0} IN
    IF S = {} THEN SortRun(ms)
    ELSE SortRun(SubSeq(ms, 1, SetMin(S) - 1)) \o <<ms[SetMin(S)]>> \o CanonicalOrder(SubSeq(ms, SetMin(S) + 1, Len(ms)))

\* canonical composition of the starter b with the marks rest; a mark composes
\* when it is not blocked by an uncomposed mark of equal or higher class; a starter
\* (class 0) that does not compose begins a new character
RECURSIVE ComposeLoop(_, _, _, _)
ComposeLoop(b, st, left, rest) ==
    IF rest = <<>>
    THEN <<Ch(b, st)>> \o [k \in 1..Len(left) |-> Plain(left[k])]
    ELSE LET x == Head(rest) IN
         IF (left = <<>> \/ CCC(left[Len(left)]) < CCC(x)) /\ Ch(b, Append(st, x)) \in Precomposed
         THEN ComposeLoop(b, Append(st, x), left, Tail(rest))
         ELSE IF CCC(x) = 0
         THEN <<Ch(b, st)>> \o [k \in 1..Len(left) |-> Plain(left[k])] \o ComposeLoop(x, <<>>, <<>>, Tail(rest))
         ELSE ComposeLoop(b, st, Append(left, x), Tail(rest))

\* unicodedata.normalize("NFC", base + "".join(marks))
NFC(b, ms) == ComposeLoop(b, <<>>, <<>>, CanonicalOrder(ms))

\* a combining mark standing alone as a code point
IsMarkChar(c) == c.b \in CombiningMarks /\ c.m = <<>>

\* the text taken as already composed
normalize_nfc_identity(t) == t

\* text_normalizer.normalize_nfc: each character with the marks (and conjoining jamo)
\* that follow it is recomposed; marks at the start of the text are only reordered
RECURSIVE normalize_nfc(_)
normalize_nfc(t) ==
    IF t = <<>> THEN <<>>
    ELSE LET stop == SetMax({j \in 2..(Len(t) + 1) :
                               \A q \in 2..(j - 1) : IsMarkChar(t[q]) \/ (~IsMarkChar(t[1]) /\ t[q] = Plain("jamo_a"))})
             marks == [q \in 1..(stop - 2) |-> t[q + 1].b]
             head == IF IsMarkChar(t[1])
                     THEN LET o == SortRun(<<t[1].b>> \o marks) IN [q \in 1..Len(o) |-> Plain(o[q])]
                     ELSE NFC(t[1].b, t[1].m \o marks)
         IN head \o normalize_nfc(SubSeq(t, stop, Len(t)))

\* ---- fix passes ----

IsInvisible(c) == c.b \in INVISIBLE_CODEPOINTS

NotInvisible(c) == ~IsInvisible(c)

\* removes only the first invisible character (str.replace(ch, "", 1))
strip_invisible_characters_first_only(t) ==
    LET I == {k \in 1..Len(t) : IsInvisible(t[k])} IN
    IF I = {} THEN t ELSE SubSeq(t, 1, SetMin(I) - 1) \o SubSeq(t, SetMin(I) + 1, Len(t))

strip_invisible_characters(t) == SelectSeq(t, NotInvisible)

\* a key of HOMOGLYPH_SAFE_MAP: a single unmarked code point
HomoglyphKey(c) == c.b \in DOMAIN HOMOGLYPH_SAFE_MAP /\ c.m = <<>>

\* a map extended with Cyrillic o -> o
replace_safe_homoglyphs_extended(t) ==
    [k \in 1..Len(t) |-> IF HomoglyphKey(t[k])
                         THEN Plain(HOMOGLYPH_SAFE_MAP[t[k].b])
                         ELSE IF t[k].b = "cyr_o" THEN Plain("o") ELSE t[k]]

replace_safe_homoglyphs(t) ==
    [k \in 1..Len(t) |-> IF HomoglyphKey(t[k])
                         THEN Plain(HOMOGLYPH_SAFE_MAP[t[k].b])
                         ELSE t[k]]

\* keeps every allowed mark, including repeated tone marks
ClampMarksKeepTones(ms, seenTone) == SelectSeq(ms, LAMBDA x : x \in ALLOWED_COMBINING)

\* keeps every mark
ClampMarksKeepAll(ms, seenTone) == ms

\* keep the first tone mark, every circumflex/breve/horn, drop everything else
RECURSIVE ClampMarks(_, _)
ClampMarks(ms, seenTone) ==
    IF ms = <<>> THEN <<>>
    ELSE LET x == Head(ms) IN
         IF IsTone(x)
         THEN IF ~seenTone THEN <<x>> \o ClampMarks(Tail(ms), TRUE)
              ELSE ClampMarks(Tail(ms), seenTone)
         ELSE IF x \in COMBINING_MAJOR_VIET THEN <<x>> \o ClampMarks(Tail(ms), seenTone)
         ELSE ClampMarks(Tail(ms), seenTone)

clamp_to_single_tone_per_letter(t) ==
    Flatten([k \in 1..Len(t) |-> IF ~IsAlpha(t[k]) THEN <<t[k]>>
                                 ELSE NFC(t[k].b, ClampMarks(t[k].m, FALSE))])

\* ---- tone-placement resolvers (indices are 1-based, NoneIdx is None) ----

NoneIdx == 0

IsPlainChar(c, b) == c = Plain(b)

IsE_circ(c) == c = Ch("e", <<"circ">>)

HasMark(c, x) == \E k \in 1..Len(c.m) : c.m[k] = x

\* re.search of a two-letter pattern in the (lower-cased) token: first start
PairPositions(tok, x, y) == {k \in 1..(Len(tok) - 1) : IsPlainChar(tok[k], x) /\ IsPlainChar(tok[k + 1], y)}

ContainsUyeCirc(tok) ==
    \E k \in 1..(Len(tok) - 2) : IsPlainChar(tok[k], "u") /\ IsPlainChar(tok[k + 1], "y") /\ IsE_circ(tok[k + 2])

\* ends with ia / ua / ưa
EndsOpenDiphthong(tok) ==
    Len(tok) >= 2 /\ IsPlainChar(tok[Len(tok)], "a")
    /\ (IsPlainChar(tok[Len(tok) - 1], "i") \/ IsPlainChar(tok[Len(tok) - 1], "u")
        \/ tok[Len(tok) - 1] = Ch("u", <<"horn">>))

CodaLetters == {"b", "c", "d", "dstroke", "g", "h", "k", "l", "m", "n", "p", "q", "r", "s", "t", "v", "x"}

\* (ng|nh|ch|[bcdđghklmnpqrstvx])$
HeurHasCoda(tok) == Len(tok) >= 1 /\ \E x \in CodaLetters : IsPlainChar(tok[Len(tok)], x)

\* [bcdđghklmnpqrstvxỳỵỷỹý]$|ng$|nh$|ch$
ValHasCoda(tok) ==
    Len(tok) >= 1 /\ (\/ \E x \in CodaLetters : IsPlainChar(tok[Len(tok)], x)
                      \/ \E x \in COMBINING_TONE_MARKS : tok[Len(tok)] = Ch("y", <<x>>))

PreferMarks == {"circ", "breve", "horn"}

Preferred(tok, vs) == {k \in vs : \E j \in 1..Len(tok[k].m) : tok[k].m[j] \in PreferMarks}

FirstWith(tok, b, x) ==
    LET S == {k \in 1..Len(tok) : tok[k].b = b /\ HasMark(tok[k], x)}
    IN IF S = {} THEN NoneIdx ELSE SetMin(S)

ClusterPats == <<<<"o", "a">>, <<"o", "e">>, <<"u", "y">>>>

IsVowelChar(c) == c.b \in VOWELS_BASE

\* VietnameseTextValidator._is_vowel_letter
IsVowelLetter(c) == c.b \in VOWELS_BASE

\* oa / oe / uy (fixer): second vowel of the first pattern found, in this order
RECURSIVE ClusterRule(_, _)
ClusterRule(tok, pats) ==
    IF pats = <<>> THEN NoneIdx
    ELSE LET P == PairPositions(tok, Head(pats)[1], Head(pats)[2]) IN
         IF P # {} /\ SetMin(P) + 1 <= Len(tok) /\ IsVowelChar(tok[SetMin(P) + 1])
         THEN SetMin(P) + 1
         ELSE ClusterRule(tok, Tail(pats))

\* oa / oe / uy (validator)
RECURSIVE ValClusterRule(_, _)
ValClusterRule(tok, pats) ==
    IF pats = <<>> THEN NoneIdx
    ELSE LET P == PairPositions(tok, Head(pats)[1], Head(pats)[2]) IN
         IF P # {} /\ SetMin(P) + 1 <= Len(tok) /\ IsVowelLetter(tok[SetMin(P) + 1])
         THEN SetMin(P) + 1
         ELSE ValClusterRule(tok, Tail(pats))

\* tone always on the first vowel
expected_tone_index_first_vowel(tok) ==
    LET vowels == {k \in 1..Len(tok) : tok[k].b \in VOWELS_BASE}
    IN IF vowels = {} THEN NoneIdx ELSE SetMin(vowels)

\* expected_tone_index_heuristic (fixer)
expected_tone_index_heuristic(tok) ==
    LET vowels == {k \in 1..Len(tok) : tok[k].b \in VOWELS_BASE}
        preferred == Preferred(tok, vowels)
        hasCoda == HeurHasCoda(tok)
        uye == IF ContainsUyeCirc(tok) THEN FirstWith(tok, "e", "circ") ELSE NoneIdx
        codaE == FirstWith(tok, "e", "circ")
        codaO == FirstWith(tok, "o", "circ")
        codaOh == FirstWith(tok, "o", "horn")
        lastA == {k \in 1..Len(tok) : tok[k].b = "a"}
    IN IF vowels = {} THEN NoneIdx
       ELSE IF Cardinality(vowels) = 1 THEN SetMin(vowels)
       ELSE IF Cardinality(preferred) = 1 THEN SetMin(preferred)
       ELSE IF uye # NoneIdx THEN uye
       ELSE IF hasCoda /\ codaE # NoneIdx THEN codaE
       ELSE IF hasCoda /\ codaO # NoneIdx THEN codaO
       ELSE IF hasCoda /\ codaOh # NoneIdx THEN codaOh
       ELSE IF ~hasCoda /\ EndsOpenDiphthong(tok) /\ lastA # {} THEN SetMax(lastA)
       ELSE ClusterRule(tok, ClusterPats)

\* one past the last character of the token
ExpectedToneIndexPastEnd(tok) ==
    IF \E k \in 1..Len(tok) : IsVowelLetter(tok[k]) THEN Len(tok) + 1 ELSE NoneIdx

\* VietnameseTextValidator._expected_tone_index (validator)
ExpectedToneIndex(tok) ==
    LET vowels == {k \in 1..Len(tok) : IsVowelLetter(tok[k])}
        preferred == Preferred(tok, vowels)
        hasCoda == ValHasCoda(tok)
        uye == IF ContainsUyeCirc(tok) THEN FirstWith(tok, "e", "circ") ELSE NoneIdx
        codaE == FirstWith(tok, "e", "circ")
        codaO == FirstWith(tok, "o", "circ")
        codaOh == FirstWith(tok, "o", "horn")
        lastA == {k \in 1..Len(tok) : IsPlainChar(tok[k], "a")}
    IN IF vowels = {} THEN NoneIdx
       ELSE IF Cardinality(vowels) = 1 THEN SetMin(vowels)
       ELSE IF Cardinality(preferred) = 1 THEN SetMin(preferred)
       ELSE IF uye # NoneIdx THEN uye
       ELSE IF hasCoda /\ codaE # NoneIdx THEN codaE
       ELSE IF hasCoda /\ codaO # NoneIdx THEN codaO
       ELSE IF hasCoda /\ codaOh # NoneIdx THEN codaOh
       ELSE IF ~hasCoda /\ EndsOpenDiphthong(tok) /\ lastA # {} THEN SetMax(lastA)
       ELSE ValClusterRule(tok, ClusterPats)

\* ---- tone relocation ----

TonePositions(tok) == {k \in 1..Len(tok) : HasTone(tok[k])}

NotTone(x) == ~IsTone(x)

FirstTone(c) == SelectSeq(c.m, IsTone)[1]

\* the tone is added to the bare base of the expected character, its other marks dropped
move_tone_mark_drop_marks(tok) ==
    LET tp == TonePositions(tok) IN
    IF Cardinality(tp) # 1 THEN tok
    ELSE LET t == SetMin(tp)
             e == expected_tone_index_heuristic(tok)
         IN IF e = NoneIdx \/ e = t THEN tok
            ELSE LET chars0 == [k \in 1..Len(tok) |-> <<tok[k]>>]
                     chars1 == [chars0 EXCEPT ![t] = NFC(tok[t].b, SelectSeq(tok[t].m, NotTone))]
                     ce == chars1[e][1]
                     chars2 == [chars1 EXCEPT ![e] = NFC(ce.b, <<FirstTone(tok[t])>>)]
                 IN Flatten(chars2)

\* move_tone_mark_within_token: the token is a sequence of characters; the
\* rebuilt character at each position is a (possibly longer) string
move_tone_mark_within_token(tok) ==
    LET tp == TonePositions(tok) IN
    IF Cardinality(tp) # 1 THEN tok
    ELSE LET t == SetMin(tp)
             e == expected_tone_index_heuristic(tok)
         IN IF e = NoneIdx \/ e = t THEN tok
            ELSE LET chars0 == [k \in 1..Len(tok) |-> <<tok[k]>>]
                     chars1 == [chars0 EXCEPT ![t] = NFC(tok[t].b, SelectSeq(tok[t].m, NotTone))]
                     ce == chars1[e][1]
                     marksE == IF ~HasTone(ce) THEN Append(ce.m, FirstTone(tok[t])) ELSE ce.m
                     chars2 == [chars1 EXCEPT ![e] = NFC(ce.b, marksE)]
                 IN Flatten(chars2)

\* token_pattern.finditer over maximal runs of the token class; the text
\* between tokens is copied
RECURSIVE FixTP(_, _, _)
FixTP(t, k, cur) ==
    IF k > Len(t) THEN move_tone_mark_within_token(cur)
    ELSE IF InTokenClass(t[k]) THEN FixTP(t, k + 1, Append(cur, t[k]))
    ELSE move_tone_mark_within_token(cur) \o <<t[k]>> \o FixTP(t, k + 1, <<>>)

\* the whole text taken as a single token
fix_tone_placement_whole_text(t) == move_tone_mark_within_token(t)

fix_tone_placement_in_text(t) == FixTP(t, 1, <<>>)

\* lines 626-630 of validate_and_fix_vietnamese_text
FixPasses(t) ==
    fix_tone_placement_in_text(clamp_to_single_tone_per_letter(
        replace_safe_homoglyphs(strip_invisible_characters(t))))

\* ---- tokens (token_pattern.finditer): 1-based start and end ----

TokenStarts(t) == {k \in 1..Len(t) : InTokenClass(t[k]) /\ (k = 1 \/ ~InTokenClass(t[k - 1]))}

TokenEnd(t, s) == SetMax({j \in s..Len(t) : \A q \in s..j : InTokenClass(t[q])})

Tokens(t) ==
    LET S == TokenStarts(t)
        n == Cardinality(S)
        Nth[k \in 1..n] == SetMin(S \ {Nth[q] : q \in 1..(k - 1)})
    IN [k \in 1..n |-> [s |-> Nth[k], e |-> TokenEnd(t, Nth[k])]]

TokenText(t, sp) == SubSeq(t, sp.s, sp.e)

\* ---- validator; an issue is its type and 0-based half-open span ----

Issue(ty, k) == [type |-> ty, start |-> k - 1, end |-> k]

\* spans reported with 1-based offsets
scan_invisible_chars_one_based(t) ==
    Flatten([k \in 1..Len(t) |-> IF IsInvisible(t[k]) THEN <<[type |-> "INVISIBLE_CHAR", start |-> k, end |-> k + 1]>> ELSE <<>>])

scan_invisible_chars(t) ==
    Flatten([k \in 1..Len(t) |-> IF IsInvisible(t[k]) THEN <<Issue("INVISIBLE_CHAR", k)>> ELSE <<>>])

\* without the isalpha() test
is_clearly_non_latin_any(c) == HasUnicodeName(c) /\ UnicodeNameWords(c) \cap ScriptNames # {}

\* is_clearly_non_latin: named, alphabetic and the name says GREEK/CYRILLIC/...
is_clearly_non_latin(c) == HasUnicodeName(c) /\ IsAlpha(c) /\ UnicodeNameWords(c) \cap ScriptNames # {}

scan_non_latin_confusables(t) ==
    Flatten([k \in 1..Len(t) |-> IF is_clearly_non_latin(t[k]) THEN <<Issue("CONFUSABLE", k)>> ELSE <<>>])

\* without the non-vowel rule
CombiningAtNoVowelRule(t, k) ==
    LET c == t[k] IN
    (IF ToneCount(c) > 1 THEN <<Issue("COMBINING", k)>> ELSE <<>>)
    \o [j \in 1..Len(SelectSeq(c.m, LAMBDA x : x \notin ALLOWED_COMBINING)) |-> Issue("COMBINING", k)]

CombiningAt(t, k) ==
    LET c == t[k] IN
    (IF ToneCount(c) > 1 THEN <<Issue("COMBINING", k)>> ELSE <<>>)
    \o (IF c.m # <<>> /\ c.b \notin VOWELS_BASE THEN <<Issue("COMBINING", k)>> ELSE <<>>)
    \o [j \in 1..Len(SelectSeq(c.m, LAMBDA x : x \notin ALLOWED_COMBINING)) |-> Issue("COMBINING", k)]

scan_combining_sequences(t) ==
    Flatten([k \in 1..Len(t) |-> IF IsAlpha(t[k]) THEN CombiningAt(t, k) ELSE <<>>])

\* flags o/u with any mark but the horn
FakeAtAnyMark(t, k) ==
    LET c == t[k] IN
    (IF c.b = "d" /\ c.m # <<>> /\ \E j \in 1..Len(c.m) : c.m[j] \notin ALLOWED_COMBINING
     THEN <<Issue("FAKE_LETTER", k)>> ELSE <<>>)
    \o (IF c.b \in {"o", "u"} /\ c.m # <<>> /\ ~HasMark(c, "horn")
        THEN <<Issue("FAKE_LETTER", k)>> ELSE <<>>)

FakeAt(t, k) ==
    LET c == t[k] IN
    (IF c.b = "d" /\ c.m # <<>> /\ \E j \in 1..Len(c.m) : c.m[j] \notin ALLOWED_COMBINING
     THEN <<Issue("FAKE_LETTER", k)>> ELSE <<>>)
    \o (IF c.b \in {"o", "u"} /\ c.m # <<>> /\ ~HasMark(c, "horn")
           /\ \E j \in 1..Len(c.m) : c.m[j] \notin (ALLOWED_COMBINING \ {"horn"})
        THEN <<Issue("FAKE_LETTER", k)>> ELSE <<>>)

scan_fake_letters(t) == Flatten([k \in 1..Len(t) |-> FakeAt(t, k)])

\* flags also when the resolver returns None (no "is not None" test)
ToneIssuesNoNoneTest(t, sp) ==
    LET tok == TokenText(t, sp)
        tp == TonePositions(tok)
        ex == ExpectedToneIndex(tok)
    IN IF Cardinality(tp) = 1 /\ ex # SetMin(tp)
       THEN <<Issue("TONE_PLACEMENT", sp.s - 1 + SetMin(tp))>>
       ELSE <<>>

\* issue reported one character to the right
ToneIssuesShifted(t, sp) ==
    LET tok == TokenText(t, sp)
        tp == TonePositions(tok)
        ex == ExpectedToneIndex(tok)
    IN IF Cardinality(tp) = 1 /\ ex # NoneIdx /\ ex # SetMin(tp)
       THEN <<Issue("TONE_PLACEMENT", sp.s + SetMin(tp))>>
       ELSE <<>>

ToneIssues(t, sp) ==
    LET tok == TokenText(t, sp)
        tp == TonePositions(tok)
        ex == ExpectedToneIndex(tok)
    IN IF Cardinality(tp) = 1 /\ ex # NoneIdx /\ ex # SetMin(tp)
       THEN <<Issue("TONE_PLACEMENT", sp.s - 1 + SetMin(tp))>>
       ELSE <<>>

scan_tone_placement(t) ==
    LET T == Tokens(t) IN Flatten([k \in 1..Len(T) |-> ToneIssues(t, T[k])])

\* fake-letter scan before the combining scan
validate_fake_first(t) ==
    scan_invisible_chars(t) \o scan_non_latin_confusables(t) \o scan_fake_letters(t)
    \o scan_combining_sequences(t) \o scan_tone_placement(t)

validate(t) ==
    scan_invisible_chars(t) \o scan_non_latin_confusables(t) \o scan_combining_sequences(t)
    \o scan_fake_letters(t) \o scan_tone_placement(t)

\* ---- the pipeline validate_and_fix_vietnamese_text ----

VARIABLES raw, nfc, stripped, homog, clamped, fixed, initial, final, refixed, pc

vars == <<raw, nfc, stripped, homog, clamped, fixed, initial, final, refixed, pc>>

\* bounded input texts
MaxLen == 3

MaxIdemLen == 4

Texts(A, n) == UNION {[1..k -> A] : k \in 0..n}

InputChars ==
    {Plain("h"), Plain("o"), Plain("a"), Plain("u"), Plain("y"),
     Ch("a", <<"grave">>), Ch("o", <<"acute">>), Ch("o", <<"tilde", "acute">>), Ch("e", <<"circ">>),
     Plain("zwsp"), Plain("cyr_a"), Plain("cyr_o"), Plain("sp")}

\* "a​b" and "hoà"
Scenario1Input == <<Plain("a"), Plain("zwsp"), Plain("b")>>

Scenario2Input == <<Plain("h"), Plain("o"), Ch("a", <<"grave">>)>>

\* "mà"
Scenario3Input == <<Plain("m"), Ch("a", <<"grave">>)>>

\* letters with marks outside the Vietnamese set, signs, unnamed letters, the Hangul syllable U+AC00 and U+0450
MarkChars ==
    {Plain("d"), Ch("d", <<"dotabove">>), Ch("d", <<"dot">>), Ch("o", <<"dotabove">>), Ch("o", <<"horn">>),
     Ch("o", <<"tilde", "acute">>), Ch("o", <<"acute">>), Plain("cyr_thousands"), Plain("tangut"),
     Plain("cyr_a"), Plain("zwsp"), Ch("hangul_g", <<"jamo_a">>),
     Ch("cyr_ie", <<"grave">>), Plain("a")}

Inputs ==
    Texts(InputChars, MaxLen) \cup Texts(MarkChars, MaxLen - 1)
    \cup {Scenario1Input, Scenario2Input, Scenario3Input}

\* letters of the tone-placement resolver rules
MaxTokLen == 4

TokChars ==
    {Plain("u"), Plain("y"), Ch("e", <<"circ">>), Plain("n"), Ch("o", <<"horn">>), Ch("u", <<"horn">>),
     Plain("a"), Plain("i"), Plain("o"), Ch("y", <<"grave">>), Plain("g"), Plain("t")}

TokInputs == Texts(TokChars, MaxTokLen)

IdemChars == {Plain("h"), Plain("o"), Plain("a"), Ch("a", <<"grave">>)}

IdemInputs == Texts(IdemChars, MaxIdemLen)

\* decomposed text: standalone marks after letters, spaces and invisible characters
MaxDecompLen == 3

DecompChars ==
    {Plain("a"), Plain("o"), Plain("e"), Plain("d"), Ch("a", <<"grave">>), Plain("grave"), Plain("acute"),
     Plain("circ"), Plain("horn"), Plain("dot"), Plain("zwsp"), Plain("sp")}

DecompInputs == Texts(DecompChars, MaxDecompLen)

InitFrom(S) ==
    /\ raw \in S
    /\ nfc = <<>> /\ stripped = <<>> /\ homog = <<>> /\ clamped = <<>> /\ fixed = <<>>
    /\ initial = <<>> /\ final = <<>> /\ refixed = <<>>
    /\ pc = "idle"

Init == InitFrom(Inputs)

InitIdem == InitFrom(IdemInputs)

InitTok == InitFrom(TokInputs)

InitDecomp == InitFrom(DecompInputs)

\* validate_and_fix_vietnamese_text(raw)
Process ==
    /\ pc = "idle"
    /\ LET s0 == normalize_nfc(raw)
           s1 == strip_invisible_characters(s0)
           s2 == replace_safe_homoglyphs(s1)
           s3 == clamp_to_single_tone_per_letter(s2)
           s4 == fix_tone_placement_in_text(s3)
       IN /\ nfc' = s0 /\ stripped' = s1 /\ homog' = s2 /\ clamped' = s3 /\ fixed' = s4
          /\ initial' = validate(s0)
          /\ final' = validate(s4)
    /\ pc' = "done"
    /\ UNCHANGED <<raw, refixed>>

\* the fix passes applied again to their own output
Refix ==
    /\ pc = "done"
    /\ refixed' = FixPasses(fixed)
    /\ pc' = "again"
    /\ UNCHANGED <<raw, nfc, stripped, homog, clamped, fixed, initial, final>>

Next == Process \/ Refix

Spec == Init /\ [][Next]_vars

SpecIdem == InitIdem /\ [][Next]_vars

SpecTok == InitTok /\ [][Next]_vars

SpecDecomp == InitDecomp /\ [][Next]_vars

\* ---- properties ----

Range(t) == {t[k] : k \in 1..Len(t)}

\* characters of the input and Latin replacements of its mapped homoglyphs
SourceChars(t) ==
    Range(t) \cup {Plain(HOMOGLYPH_SAFE_MAP[t[k].b]) : k \in {j \in 1..Len(t) : HomoglyphKey(t[j])}}

\* C1: fixing is idempotent: the fix passes applied to the fixed text return it unchanged
C1_Idempotent == pc = "again" => refixed = fixed

\* C2: the fixed text (and the text fixed again) contains no invisible character
C2_NoInvisible ==
    pc # "idle" => /\ \A k \in 1..Len(fixed) : ~IsInvisible(fixed[k])
                   /\ \A k \in 1..Len(refixed) : ~IsInvisible(refixed[k])

C2_Witness == pc = "done" /\ \E k \in 1..Len(raw) : IsInvisible(raw[k]) /\ Len(fixed) > 0

\* C3: after clamping, and after tone relocation, every character carries at most one tone mark
C3_SingleTone ==
    pc # "idle" => /\ \A k \in 1..Len(clamped) : ToneCount(clamped[k]) <= 1
                   /\ \A k \in 1..Len(fixed) : ToneCount(fixed[k]) <= 1

C3_Witness == pc = "done" /\ (\E k \in 1..Len(raw) : ToneCount(raw[k]) > 1) /\ fixed # clamped

\* C4 (as stated): every character of the fixed text is a character of the input
\* or the Latin replacement of a mapped homoglyph of the input
C4_NoNewChars == pc # "idle" => \A k \in 1..Len(fixed) : fixed[k] \in SourceChars(raw)

\* the combining marks occurring in t, on its characters or standing alone
SourceMarks(t) == UNION {Range(c.m) : c \in Range(t)} \cup {c.b : c \in {d \in Range(t) : IsMarkChar(d)}}

\* C4 (amended): every character of the fixed text is a character of the input or of a
\* homoglyph replacement, or combines the base of one with marks occurring in the input,
\* or is a standalone mark occurring in the input
C4_NoNewBases ==
    pc # "idle" => \A k \in 1..Len(fixed) :
        \/ fixed[k] \in SourceChars(raw)
        \/ /\ Range(fixed[k].m) \subseteq SourceMarks(raw)
           /\ \/ fixed[k].b \in {c.b : c \in SourceChars(raw)}
              \/ IsMarkChar(fixed[k]) /\ fixed[k].b \in SourceMarks(raw)

C4_Witness ==
    /\ pc = "done"
    /\ \E k \in 1..Len(fixed) : fixed[k] \notin SourceChars(raw)
    /\ \E k \in 1..Len(raw) : HomoglyphKey(raw[k])

SingleToneAtExpected(tok) ==
    Cardinality(TonePositions(tok)) = 1
    /\ expected_tone_index_heuristic(tok) = SetMin(TonePositions(tok))

IsSubSeq(u, t) == \E k \in 0..(Len(t) - Len(u)) : SubSeq(t, k + 1, k + Len(u)) = u

\* C5 (as stated): a token of the input with a single tone at the expected index
\* reappears unchanged in the fixed text
C5_InputTokenKept ==
    pc # "idle" => \A sp \in Range(Tokens(raw)) :
        SingleToneAtExpected(TokenText(raw, sp)) => IsSubSeq(TokenText(raw, sp), fixed)

\* C5 (amended): a token entering the relocation pass with a single tone at the
\* expected index is the same token of the fixed text
C5_RelocationKeepsToken ==
    pc # "idle" =>
        LET TC == Tokens(clamped)
            TF == Tokens(fixed)
        IN /\ Len(TC) = Len(TF)
           /\ \A k \in 1..Len(TC) :
                SingleToneAtExpected(TokenText(clamped, TC[k])) => TokenText(fixed, TF[k]) = TokenText(clamped, TC[k])

C5_Witness ==
    /\ pc = "done" /\ raw # clamped
    /\ \E sp \in Range(Tokens(clamped)) : SingleToneAtExpected(TokenText(clamped, sp))

\* C6: a text whose validation report is empty is returned unchanged
C6_CorrectTextUnchanged == (pc # "idle" /\ initial = <<>>) => fixed = raw

C6_Witness ==
    /\ pc = "done" /\ initial = <<>>
    /\ \E sp \in Range(Tokens(raw)) : Cardinality(TonePositions(TokenText(raw, sp))) = 1
                                    /\ Cardinality({k \in sp.s..sp.e : IsVowelChar(raw[k])}) >= 2

\* C7: a token for which the resolver returns None is neither flagged nor changed
C7_NoneNotActedOn ==
    pc # "idle" =>
        /\ \A sp \in Range(Tokens(raw)) :
              ExpectedToneIndex(TokenText(raw, sp)) = NoneIdx =>
                 \A k \in 1..Len(initial) :
                    initial[k].type = "TONE_PLACEMENT" => (initial[k].start < sp.s - 1 \/ initial[k].start >= sp.e)
        /\ LET TC == Tokens(clamped)
               TF == Tokens(fixed)
           IN \A k \in 1..Len(TC) :
                 expected_tone_index_heuristic(TokenText(clamped, TC[k])) = NoneIdx =>
                    (k <= Len(TF) /\ TokenText(fixed, TF[k]) = TokenText(clamped, TC[k]))

C7_Witness ==
    /\ pc = "done"
    /\ \E sp \in Range(Tokens(raw)) : LET tok == TokenText(raw, sp) IN
          Cardinality(TonePositions(tok)) = 1 /\ ExpectedToneIndex(tok) = NoneIdx
    /\ \E sp \in Range(Tokens(clamped)) : LET tok == TokenText(clamped, sp) IN
          Cardinality(TonePositions(tok)) = 1 /\ expected_tone_index_heuristic(tok) = NoneIdx

\* C9: "a​b" is fixed to "ab" and reported with one invisible character at [1,2)
IsInvisibleIssue(i) == i.type = "INVISIBLE_CHAR"

C9_Scenario1 ==
    (pc # "idle" /\ raw = Scenario1Input) =>
        /\ fixed = <<Plain("a"), Plain("b")>>
        /\ SelectSeq(initial, IsInvisibleIssue) = <<[type |-> "INVISIBLE_CHAR", start |-> 1, end |-> 2]>>

C9_Witness == pc = "done" /\ raw = Scenario1Input

\* C10: for the token "hoà" the resolver selects 'o' (oa rule) and fix yields "hòa"
C10_Scenario2 ==
    (pc # "idle" /\ raw = Scenario2Input) =>
        /\ expected_tone_index_heuristic(raw) = 2
        /\ fixed = <<Plain("h"), Ch("o", <<"grave">>), Plain("a")>>

IsToneIssue(i) == i.type = "TONE_PLACEMENT"


\* C11: a single d carrying a mark outside the Vietnamese set has exactly one
\* FAKE_LETTER issue and the clamp pass drops that mark
IsFakeIssue(i) == i.type = "FAKE_LETTER"

IsAllowedMark(x) == x \in ALLOWED_COMBINING

C11_FakeD ==
    (pc # "idle" /\ Len(raw) = 1 /\ raw[1].b = "d" /\ \E j \in 1..Len(raw[1].m) : raw[1].m[j] \notin ALLOWED_COMBINING)
    => /\ Len(SelectSeq(initial, IsFakeIssue)) = 1
       /\ clamped = <<Ch("d", SelectSeq(raw[1].m, IsAllowedMark))>>

C11_Witness == pc = "done" /\ raw = <<Ch("d", <<"dotabove">>)>>

\* C12: issues come grouped by kind in the scan order, by nondecreasing start within a kind
KindRank(ty) ==
    CASE ty = "INVISIBLE_CHAR" -> 1 [] ty = "CONFUSABLE" -> 2 [] ty = "COMBINING" -> 3
      [] ty = "FAKE_LETTER" -> 4 [] ty = "TONE_PLACEMENT" -> 5

IssuesOrdered(r) ==
    \A j, k \in 1..Len(r) : j < k =>
        \/ KindRank(r[j].type) < KindRank(r[k].type)
        \/ KindRank(r[j].type) = KindRank(r[k].type) /\ r[j].start <= r[k].start

C12_IssueOrder == pc # "idle" => IssuesOrdered(initial) /\ IssuesOrdered(final)

C12_Witness ==
    /\ pc = "done"
    /\ Cardinality({initial[k].type : k \in 1..Len(initial)}) >= 3
    /\ \E j, k \in 1..Len(initial) : j < k /\ initial[j].type = initial[k].type

\* issues of one kind starting at 0-based offset i
IssuesAt(r, ty, i) == {j \in 1..Len(r) : r[j].type = ty /\ r[j].start = i}

WidthOne(r, ty) == \A j \in 1..Len(r) : r[j].type = ty => (r[j].end = r[j].start + 1)

InText(r, ty, t) == \A j \in 1..Len(r) : r[j].type = ty => r[j].start \in 0..(Len(t) - 1)

\* C13: exactly one INVISIBLE_CHAR issue [i,i+1) per invisible character, none elsewhere
C13_InvisibleScan ==
    pc # "idle" =>
        /\ WidthOne(initial, "INVISIBLE_CHAR") /\ InText(initial, "INVISIBLE_CHAR", raw)
        /\ \A i \in 1..Len(raw) :
              Cardinality(IssuesAt(initial, "INVISIBLE_CHAR", i - 1)) = IF raw[i] \in {Plain(x) : x \in INVISIBLE_CODEPOINTS} THEN 1 ELSE 0

C13_Witness == pc = "done" /\ Cardinality({i \in 1..Len(raw) : IsInvisible(raw[i])}) >= 2

\* C14: a CONFUSABLE issue [i,i+1) exactly at alphabetic characters whose name names a
\* non-Latin script; unnamed characters are never flagged
C14_ConfusableScan ==
    pc # "idle" =>
        /\ WidthOne(initial, "CONFUSABLE") /\ InText(initial, "CONFUSABLE", raw)
        /\ \A i \in 1..Len(raw) :
              Cardinality(IssuesAt(initial, "CONFUSABLE", i - 1)) =
                 IF IsAlpha(raw[i]) /\ HasUnicodeName(raw[i]) /\ UnicodeNameWords(raw[i]) \cap ScriptNames # {} THEN 1 ELSE 0
        /\ \A i \in 1..Len(raw) : ~HasUnicodeName(raw[i]) => IssuesAt(initial, "CONFUSABLE", i - 1) = {}

C14_Witness ==
    /\ pc = "done"
    /\ \E i \in 1..Len(raw) : IsAlpha(raw[i]) /\ UnicodeNameWords(raw[i]) # {}
    /\ \E i \in 1..Len(raw) : (~IsAlpha(raw[i]) /\ UnicodeNameWords(raw[i]) # {}) \/ ~HasUnicodeName(raw[i])

\* C15: COMBINING issues of a letter: one for several tone marks, one for marks on a
\* non-vowel, one per mark outside the Vietnamese set; none for non-letters
IsNotAllowedMark(x) == x \notin ALLOWED_COMBINING

C15_CombiningScan ==
    pc # "idle" =>
        /\ WidthOne(initial, "COMBINING") /\ InText(initial, "COMBINING", raw)
        /\ \A i \in 1..Len(raw) :
              LET c == raw[i] IN
              Cardinality(IssuesAt(initial, "COMBINING", i - 1)) =
                 IF ~IsAlpha(c) THEN 0
                 ELSE (IF ToneCount(c) > 1 THEN 1 ELSE 0)
                      + (IF c.m # <<>> /\ c.b \notin {"a", "e", "i", "o", "u", "y"} THEN 1 ELSE 0)
                      + Len(SelectSeq(c.m, IsNotAllowedMark))

C15_Witness ==
    /\ pc = "done"
    /\ \E i \in 1..Len(raw) : ToneCount(raw[i]) > 1
    /\ \E i \in 1..Len(raw) : raw[i].b = "d" /\ raw[i].m # <<>>

\* C16: a FAKE_LETTER issue exactly at a d with a mark outside the Vietnamese set and
\* at an o/u with marks, no horn and a mark outside the set without horn
FakeD(c) == c.b = "d" /\ \E j \in 1..Len(c.m) : c.m[j] \notin ALLOWED_COMBINING

FakeHorn(c) ==
    c.b \in {"o", "u"} /\ c.m # <<>> /\ ~HasMark(c, "horn")
    /\ \E j \in 1..Len(c.m) : c.m[j] \notin (ALLOWED_COMBINING \ {"horn"})

C16_FakeScan ==
    pc # "idle" =>
        /\ WidthOne(initial, "FAKE_LETTER") /\ InText(initial, "FAKE_LETTER", raw)
        /\ \A i \in 1..Len(raw) :
              Cardinality(IssuesAt(initial, "FAKE_LETTER", i - 1)) = IF FakeD(raw[i]) \/ FakeHorn(raw[i]) THEN 1 ELSE 0

C16_Witness ==
    /\ pc = "done"
    /\ \E i \in 1..Len(raw) : FakeHorn(raw[i])
    /\ \E i \in 1..Len(raw) : raw[i].b = "o" /\ raw[i].m # <<>> /\ ~FakeHorn(raw[i])

\* C17: one TONE_PLACEMENT issue at the tone of each token with a single tone that the
\* resolver expects elsewhere, and no other
FlaggedTokens(t) ==
    LET T == Tokens(t) IN
    {k \in 1..Len(T) : LET tok == TokenText(t, T[k]) IN
                       /\ Cardinality(TonePositions(tok)) = 1
                       /\ ExpectedToneIndex(tok) # NoneIdx
                       /\ ExpectedToneIndex(tok) # SetMin(TonePositions(tok))}

C17_ToneScan ==
    pc # "idle" =>
        LET T == Tokens(raw)
            TI == SelectSeq(initial, IsToneIssue)
        IN /\ Len(TI) = Cardinality(FlaggedTokens(raw))
           /\ WidthOne(initial, "TONE_PLACEMENT")
           /\ {TI[j].start : j \in 1..Len(TI)} =
                 {T[k].s - 2 + SetMin(TonePositions(TokenText(raw, T[k]))) : k \in FlaggedTokens(raw)}

C17_Witness ==
    /\ pc = "done" /\ FlaggedTokens(raw) # {}
    /\ \E k \in 1..Len(raw) : ~InTokenClass(raw[k])


VowelIdx(tok) == {k \in 1..Len(tok) : tok[k].b \in {"a", "e", "i", "o", "u", "y"}}

QualityVowels(tok) == {k \in VowelIdx(tok) : \E j \in 1..Len(tok[k].m) : tok[k].m[j] \in {"circ", "breve", "horn"}}

\* C18: a token with one vowel expects the tone on it ("mà" is left unchanged); otherwise a
\* token with one vowel bearing circumflex, breve or horn expects the tone on that vowel
C18_Rules12 ==
    pc # "idle" =>
        /\ \A sp \in Range(Tokens(raw)) :
              LET tok == TokenText(raw, sp) IN
              /\ Cardinality(VowelIdx(tok)) = 1 =>
                    /\ expected_tone_index_heuristic(tok) = SetMin(VowelIdx(tok))
                    /\ ExpectedToneIndex(tok) = SetMin(VowelIdx(tok))
              /\ (Cardinality(VowelIdx(tok)) > 1 /\ Cardinality(QualityVowels(tok)) = 1) =>
                    /\ expected_tone_index_heuristic(tok) = SetMin(QualityVowels(tok))
                    /\ ExpectedToneIndex(tok) = SetMin(QualityVowels(tok))
        /\ raw = Scenario3Input => (fixed = raw /\ expected_tone_index_heuristic(raw) = 2 /\ ExpectedToneIndex(raw) = 2)

C18_Witness ==
    /\ pc = "done"
    /\ \E sp \in Range(Tokens(raw)) :
          LET tok == TokenText(raw, sp) IN
          Cardinality(VowelIdx(tok)) > 1 /\ Cardinality(QualityVowels(tok)) = 1
          /\ Cardinality(TonePositions(tok)) = 1 /\ TonePositions(tok) # QualityVowels(tok)

ECircIdx(tok) == {k \in 1..Len(tok) : tok[k].b = "e" /\ HasMark(tok[k], "circ")}

UyeCase(tok) == Cardinality(VowelIdx(tok)) > 1 /\ Cardinality(QualityVowels(tok)) # 1 /\ ContainsUyeCirc(tok)

\* "uyên" and "uỳên"
UyenToken == <<Plain("u"), Plain("y"), Ch("e", <<"circ">>), Plain("n")>>

UyenToneOnY == <<Plain("u"), Ch("y", <<"grave">>), Ch("e", <<"circ">>), Plain("n")>>

\* C19: when rules 1-2 do not resolve and the token contains "uyê" the tone belongs on
\* the ê; for "uyên" the ê is expected and a tone elsewhere is moved onto it
C19_UyeRule ==
    pc # "idle" =>
        /\ \A sp \in Range(Tokens(raw)) :
              LET tok == TokenText(raw, sp) IN
              UyeCase(tok) =>
                 /\ expected_tone_index_heuristic(tok) \in ECircIdx(tok)
                 /\ ExpectedToneIndex(tok) \in ECircIdx(tok)
                 /\ Cardinality(ECircIdx(tok)) = 1 =>
                       expected_tone_index_heuristic(tok) = SetMin(ECircIdx(tok)) /\ ExpectedToneIndex(tok) = SetMin(ECircIdx(tok))
        /\ raw = UyenToken => (expected_tone_index_heuristic(raw) = 3 /\ ExpectedToneIndex(raw) = 3 /\ fixed = raw)
        /\ raw = UyenToneOnY => fixed = <<Plain("u"), Plain("y"), Ch("e", <<"circ", "grave">>), Plain("n")>>

C19_Witness ==
    pc = "done" /\ \E sp \in Range(Tokens(raw)) : UyeCase(TokenText(raw, sp))

\* the coda finals listed by the resolver: b c d đ g h k l m n p q r s t v x, ng nh ch
ClaimCodaFinals == {"b", "c", "d", "dstroke", "g", "h", "k", "l", "m", "n", "p", "q", "r", "s", "t", "v", "x"}

ClaimHasCoda(tok) ==
    Len(tok) >= 1
    /\ \/ \E x \in ClaimCodaFinals : tok[Len(tok)] = Plain(x)
       \/ Len(tok) >= 2 /\ <<tok[Len(tok) - 1], tok[Len(tok)]>> \in
             {<<Plain("n"), Plain("g")>>, <<Plain("n"), Plain("h")>>, <<Plain("c"), Plain("h")>>}

NoClusterPair(tok) == \A k \in 1..Len(ClusterPats) : PairPositions(tok, ClusterPats[k][1], ClusterPats[k][2]) = {}

CodaTarget(tok) ==
    IF FirstWith(tok, "e", "circ") # NoneIdx THEN FirstWith(tok, "e", "circ")
    ELSE IF FirstWith(tok, "o", "circ") # NoneIdx THEN FirstWith(tok, "o", "circ")
    ELSE FirstWith(tok, "o", "horn")

\* C20: a token has a coda exactly when it ends in one of the listed finals; with a coda
\* (rules 1-4 not resolving) the tone goes on the first ê, else ô, else ơ; without a coda
\* the coda rule does not apply
C20_CodaRule ==
    pc # "idle" =>
        \A sp \in Range(Tokens(raw)) :
            LET tok == TokenText(raw, sp)
                pre == Cardinality(VowelIdx(tok)) > 1 /\ Cardinality(QualityVowels(tok)) # 1
                       /\ ~(ContainsUyeCirc(tok) /\ ECircIdx(tok) # {})
            IN \A r \in {expected_tone_index_heuristic(tok), ExpectedToneIndex(tok)} :
                  /\ (pre /\ ClaimHasCoda(tok) /\ CodaTarget(tok) # NoneIdx) => r = CodaTarget(tok)
                  /\ (pre /\ ~ClaimHasCoda(tok) /\ ~EndsOpenDiphthong(tok) /\ NoClusterPair(tok)) => r = NoneIdx


\* rules 1-3 (one vowel, one quality vowel, uyê) do not resolve the token
EarlyUnresolved(tok) == Cardinality(VowelIdx(tok)) > 1 /\ Cardinality(QualityVowels(tok)) # 1 /\ ~ContainsUyeCirc(tok)

LastA(tok) == SetMax({k \in 1..Len(tok) : tok[k].b = "a"})

\* C21: with rules 1-4 not resolving, no coda and a token ending in ia / ua / ưa, the
\* expected index is the last 'a' of the token
C21_OpenDiphthong ==
    pc # "idle" =>
        \A sp \in Range(Tokens(raw)) :
            LET tok == TokenText(raw, sp) IN
            (EarlyUnresolved(tok) /\ ~ClaimHasCoda(tok) /\ EndsOpenDiphthong(tok)) =>
                /\ expected_tone_index_heuristic(tok) = LastA(tok)
                /\ ExpectedToneIndex(tok) = LastA(tok)

C21_Witness ==
    pc = "done" /\ \E sp \in Range(Tokens(raw)) :
        LET tok == TokenText(raw, sp) IN
        EarlyUnresolved(tok) /\ ~ClaimHasCoda(tok) /\ EndsOpenDiphthong(tok) /\ Len(tok) >= 3


\* a letter x carrying only tone marks (case-folded, tone marks disregarded)
ToneOnlyIs(c, x) == c.b = x /\ \A j \in 1..Len(c.m) : IsTone(c.m[j])

ToneFreePairPositions(tok, x, y) == {k \in 1..(Len(tok) - 1) : ToneOnlyIs(tok[k], x) /\ ToneOnlyIs(tok[k + 1], y)}

RECURSIVE ToneFreeClusterRule(_, _)
ToneFreeClusterRule(tok, pats) ==
    IF pats = <<>> THEN NoneIdx
    ELSE LET P == ToneFreePairPositions(tok, Head(pats)[1], Head(pats)[2]) IN
         IF P # {} THEN SetMin(P) + 1 ELSE ToneFreeClusterRule(tok, Tail(pats))

\* rules 1-5 (one vowel, quality vowel, uyê, coda, open diphthong) do not resolve
RulesOneToFiveUnresolved(tok) ==
    /\ EarlyUnresolved(tok)
    /\ ~(ClaimHasCoda(tok) /\ CodaTarget(tok) # NoneIdx)
    /\ ~(~ClaimHasCoda(tok) /\ EndsOpenDiphthong(tok))

\* C22: when rules 1-5 do not resolve, the expected index is the second vowel of the first
\* oa / oe / uy cluster of the token (tone marks on its vowels disregarded), and None if
\* there is no such cluster
C22_ClusterRule ==
    pc # "idle" =>
        \A sp \in Range(Tokens(raw)) :
            LET tok == TokenText(raw, sp) IN
            RulesOneToFiveUnresolved(tok) =>
                /\ expected_tone_index_heuristic(tok) = ToneFreeClusterRule(tok, ClusterPats)
                /\ ExpectedToneIndex(tok) = ToneFreeClusterRule(tok, ClusterPats)


\* the NFD marks kept by the clamp as described: the first tone mark, every
\* circumflex/breve/horn; other combining marks are dropped, other code points kept
ClaimClampMarks(ms) ==
    LET T == {j \in 1..Len(ms) : IsTone(ms[j])}
        keep == {j \in 1..Len(ms) : (j \in T /\ j = SetMin(T)) \/ ms[j] \in COMBINING_MAJOR_VIET \/ ms[j] \notin CombiningMarks}
        idx == SelectSeq([j \in 1..Len(ms) |-> j], LAMBDA j : j \in keep)
    IN [i \in 1..Len(idx) |-> ms[idx[i]]]

\* C23: the clamp pass replaces each alphabetic character by NFC(base + kept marks) and
\* copies every other character
C23_Clamp ==
    pc # "idle" =>
        clamped = Flatten([k \in 1..Len(homog) |-> IF ~IsAlpha(homog[k]) THEN <<homog[k]>>
                                                   ELSE NFC(homog[k].b, ClaimClampMarks(homog[k].m))])


\* the token span of t containing position k
SpanAt(t, k) == CHOOSE sp \in Range(Tokens(t)) : sp.s <= k /\ k <= sp.e

\* the relocation pass described position by position
RelocatedAt(t, k) ==
    IF ~InTokenClass(t[k]) THEN <<t[k]>>
    ELSE LET sp == SpanAt(t, k)
             tok == TokenText(t, sp)
             j == k - sp.s + 1
             tp == TonePositions(tok)
             e == expected_tone_index_heuristic(tok)
         IN IF Cardinality(tp) # 1 \/ e = NoneIdx \/ e = SetMin(tp) THEN <<t[k]>>
            ELSE IF j = SetMin(tp) THEN NFC(t[k].b, SelectSeq(t[k].m, NotTone))
            ELSE IF j = e THEN NFC(t[k].b, Append(t[k].m, FirstTone(tok[SetMin(tp)])))
            ELSE <<t[k]>>

\* C24: the relocation pass removes the tone of a token's single tone-bearing character,
\* keeping its other marks, adds it to the expected character, keeping its marks, and
\* copies every other character, token and inter-token text
C24_Relocation ==
    pc # "idle" => fixed = Flatten([k \in 1..Len(clamped) |-> RelocatedAt(clamped, k)])

C24_Witness ==
    /\ pc = "done" /\ fixed # clamped
    /\ \E k \in 1..Len(clamped) : ~InTokenClass(clamped[k])
    /\ \E k \in 1..Len(clamped) : Len(clamped[k].m) > 0 /\ ~HasTone(clamped[k])


\* C25: the homoglyph pass replaces each key of HOMOGLYPH_SAFE_MAP by its Latin letter and
\* leaves every other character, flagged confusables included, untouched; the length is kept
C25_Homoglyph ==
    pc # "idle" =>
        /\ Len(homog) = Len(stripped)
        /\ \A k \in 1..Len(stripped) :
              IF stripped[k] \in {Plain(x) : x \in DOMAIN HOMOGLYPH_SAFE_MAP}
              THEN homog[k] = Plain(HOMOGLYPH_SAFE_MAP[stripped[k].b])
              ELSE homog[k] = stripped[k]

C25_Witness ==
    /\ pc = "done"
    /\ \E k \in 1..Len(stripped) : HomoglyphKey(stripped[k])
    /\ \E k \in 1..Len(stripped) : is_clearly_non_latin(stripped[k]) /\ stripped[k].m # <<>>


\* the issues of r lie within a text of length n and point at characters of t of their kind
OffsetsInto(r, t) ==
    \A i \in Range(r) :
        /\ 0 <= i.start /\ i.start < i.end /\ i.end <= Len(t)
        /\ i.type = "INVISIBLE_CHAR" => IsInvisible(t[i.start + 1])
        /\ i.type = "TONE_PLACEMENT" => HasTone(t[i.start + 1])

\* C26: process(raw) validates NFC(raw), fixes NFC(raw) by strip, homoglyph, clamp and
\* relocation, and validates the fixed text; offsets refer to NFC(raw) and to the fixed text
C26_Orchestrator ==
    pc # "idle" =>
        /\ nfc = normalize_nfc(raw)
        /\ initial = validate(normalize_nfc(raw))
        /\ fixed = fix_tone_placement_in_text(clamp_to_single_tone_per_letter(
                       replace_safe_homoglyphs(strip_invisible_characters(normalize_nfc(raw)))))
        /\ final = validate(fixed)
        /\ OffsetsInto(initial, nfc) /\ OffsetsInto(final, fixed)
        /\ raw = <<Plain("a"), Plain("grave")>> => nfc = <<Ch("a", <<"grave">>)>>

C26_Witness ==
    /\ pc = "done" /\ raw # nfc /\ initial # <<>> /\ final # <<>>
    /\ \E i \in Range(initial) : i.type = "INVISIBLE_CHAR"


\* each resolver answer for the tokens of t is None or a position of the token
ResolversInRange(t) ==
    \A sp \in Range(Tokens(t)) :
        LET tok == TokenText(t, sp) IN
        /\ expected_tone_index_heuristic(tok) \in {NoneIdx} \cup (1..Len(tok))
        /\ ExpectedToneIndex(tok) \in {NoneIdx} \cup (1..Len(tok))

C28_SameResolver ==
    pc # "idle" =>
        \A sp \in Range(Tokens(nfc)) :
            expected_tone_index_heuristic(TokenText(nfc, sp)) = ExpectedToneIndex(TokenText(nfc, sp))


\* C29: the fixed text is in NFC, so the final validation gets composed input
C29_FixedIsNFC == pc # "idle" => normalize_nfc(fixed) = fixed


\* C30: the final report has no INVISIBLE_CHAR issue, no COMBINING issue for a letter with
\* more than one tone mark (raised exactly for an alphabetic character with two tone
\* marks) and no TONE_PLACEMENT issue
C30_FinalClean ==
    pc # "idle" =>
        /\ \A i \in Range(final) : i.type \notin {"INVISIBLE_CHAR", "TONE_PLACEMENT"}
        /\ \A k \in 1..Len(fixed) : IsAlpha(fixed[k]) => ToneCount(fixed[k]) <= 1

====
